---- MODULE Spec2Model ----
(***************************************************************************)
(* Model of src/src/CalculatingCalibration.py: the single pass of main()   *)
(* over a loaded data set.  Candidate generation, frequency counting,      *)
(* scoring, arg-max / arg-min selection and report assembly are modelled   *)
(* statement block by statement block; pc is the position inside main().   *)
(* Python indices are kept 0-based (best/worst indices); TLA+ sequences    *)
(* are 1-based, so list[i] in the code is seq[i + 1] here.                 *)
(***************************************************************************)
EXTENDS Integers, Sequences, FiniteSets, TLC

VARIABLES
    pc,                 \* position inside main()
    config,             \* module constants DIST_P1_P2 .. DIST_P4_P5
    df,                 \* the data frame (sequence of rows)
    p1_5_candidates, p1_5_freqs, p1_5_scores,
    best_p1_5_idx, worst_p1_5_idx,
    most_likely_p1_5, least_likely_p1_5,
    p6_7_freqs, distance_counts,
    p6_7_candidates, p6_7_scores,
    best_p6_7_idx, worst_p6_7_idx,
    most_likely_p6_7, least_likely_p6_7,
    result,             \* the report dictionary
    stdout,             \* documents printed so far
    error               \* the exception that ended the run, "" if none

vars == <<pc, config, df, p1_5_candidates, p1_5_freqs, p1_5_scores,
          best_p1_5_idx, worst_p1_5_idx, most_likely_p1_5, least_likely_p1_5,
          p6_7_freqs, distance_counts, p6_7_candidates, p6_7_scores,
          best_p6_7_idx, worst_p6_7_idx, most_likely_p6_7, least_likely_p6_7,
          result, stdout, error>>

----------------------------------------------------------------------------
(* Bounds and input samples *)

MaxRows == 2

\* slots 1..5 of the sample observations: three that follow the fixed gaps
\* (first, middle and last candidate) and one that does not
P15Samples == { <<1, 6, 8, 19, 29>>, <<10, 15, 17, 28, 38>>,
                <<22, 27, 29, 40, 50>>, <<3, 15, 20, 33, 41>> }

\* slots 6..7 of the sample observations
P67Samples == { <<1, 2>>, <<3, 7>>, <<11, 12>> }

RowSet == { [P1 |-> a[1], P2 |-> a[2], P3 |-> a[3], P4 |-> a[4], P5 |-> a[5],
             P6 |-> b[1], P7 |-> b[2]] : a \in P15Samples, b \in P67Samples }

\* what load_data("data/22.csv") may return (line 66)
Datasets == UNION { [1..n -> RowSet] : n \in 0..MaxRows }

----------------------------------------------------------------------------
(* Module constants, lines 25-33 *)

TARGET_DATE == "2026-02-03"

USE_LLM_REFINEMENT == FALSE

DefaultConfig == [DIST_P1_P2 |-> 5, DIST_P2_P3 |-> 2,
                  DIST_P3_P4 |-> 11, DIST_P4_P5 |-> 10]

\* edited constant sets: one that leaves a single candidate, one that leaves none
Configs == { DefaultConfig,
             [DIST_P1_P2 |-> 5, DIST_P2_P3 |-> 2, DIST_P3_P4 |-> 11, DIST_P4_P5 |-> 31],
             [DIST_P1_P2 |-> 5, DIST_P2_P3 |-> 2, DIST_P3_P4 |-> 11, DIST_P4_P5 |-> 32] }

DIST_P1_P2 == config.DIST_P1_P2
DIST_P2_P3 == config.DIST_P2_P3
DIST_P3_P4 == config.DIST_P3_P4
DIST_P4_P5 == config.DIST_P4_P5
SUM_DISTANCES == DIST_P1_P2 + DIST_P2_P3 + DIST_P3_P4 + DIST_P4_P5

----------------------------------------------------------------------------
(* generate_p1_5_candidates, lines 44-52 *)

RECURSIVE P15Loop(_, _)
\* the for loop over range(p1, stop)
P15Loop(p1, stop) ==
    IF p1 >= stop THEN <<>>
    ELSE LET p2 == p1 + DIST_P1_P2
             p3 == p2 + DIST_P2_P3
             p4 == p3 + DIST_P3_P4
             p5 == p4 + DIST_P4_P5
         IN  << <<p1, p2, p3, p4, p5>> >> \o P15Loop(p1 + 1, stop)

RECURSIVE P15LoopWrongGap(_, _)
P15LoopWrongGap(p1, stop) ==
    IF p1 >= stop THEN <<>>
    ELSE LET p2 == p1 + DIST_P1_P2
             p3 == p2 + DIST_P2_P3
             p4 == p3 + DIST_P4_P5
             p5 == p4 + DIST_P4_P5
         IN  << <<p1, p2, p3, p4, p5>> >> \o P15LoopWrongGap(p1 + 1, stop)

generate_WrongGap == P15LoopWrongGap(1, 51 - SUM_DISTANCES)

generate_StopTooFar == P15Loop(1, 52 - SUM_DISTANCES)

generate_StopTooEarly == P15Loop(1, 50 - SUM_DISTANCES)

generate_p1_5_candidates == P15Loop(1, 51 - SUM_DISTANCES)

----------------------------------------------------------------------------
(* the list comprehension of line 91 *)

RECURSIVE P67Inner(_, _)
\* for p7 in range(p7, 13)
P67Inner(p6, p7) ==
    IF p7 >= 13 THEN <<>>
    ELSE << <<p6, p7>> >> \o P67Inner(p6, p7 + 1)

RECURSIVE P67Outer(_)
\* for p6 in range(p6, 12), inner range starting at p6 + 1
P67Outer(p6) ==
    IF p6 >= 12 THEN <<>>
    ELSE P67Inner(p6, p6 + 1) \o P67Outer(p6 + 1)

RECURSIVE P67OuterFromSelf(_)
P67OuterFromSelf(p6) ==
    IF p6 >= 12 THEN <<>>
    ELSE P67Inner(p6, p6) \o P67OuterFromSelf(p6 + 1)

generate_p6_7_FromSelf == P67OuterFromSelf(1)

generate_p6_7_candidates == P67Outer(1)

----------------------------------------------------------------------------
(* dictionaries: Counter(...) and dict.get(key, 0) *)

\* dict.get(key, 0)
Get(d, key) == IF key \in DOMAIN d THEN d[key] ELSE 0

RECURSIVE Counter(_)
\* collections.Counter over a sequence: one increment per element
Counter(s) ==
    IF Len(s) = 0 THEN <<>>
    ELSE LET c == Counter(SubSeq(s, 1, Len(s) - 1))
             e == s[Len(s)]
         IN  [v \in (DOMAIN c) \cup {e} |-> IF v = e THEN Get(c, e) + 1 ELSE c[v]]

\* df[name].astype(int): the column as a sequence of integers
Column(d, name) == [r \in 1..Len(d) |-> d[r][name]]

\* features.distance_features: adds the D67 column
distance_features(d) ==
    [r \in 1..Len(d) |->
        [P1 |-> d[r].P1, P2 |-> d[r].P2, P3 |-> d[r].P3, P4 |-> d[r].P4,
         P5 |-> d[r].P5, P6 |-> d[r].P6, P7 |-> d[r].P7,
         D67 |-> d[r].P7 - d[r].P6]]

----------------------------------------------------------------------------
(* score_p1_5_candidate, lines 55-56 *)

RECURSIVE SumEnumerate(_, _, _)
\* sum(freqs_by_col[i].get(value, 0) for i, value in enumerate(candidate)), from index i on
SumEnumerate(candidate, freqs_by_col, i) ==
    IF i > Len(candidate) THEN 0
    ELSE Get(freqs_by_col[i], candidate[i]) + SumEnumerate(candidate, freqs_by_col, i + 1)

score_p1_5_FirstTable(candidate, freqs_by_col) ==
    SumEnumerate(candidate, [i \in 1..Len(freqs_by_col) |-> freqs_by_col[1]], 1)

score_p1_5_candidate(candidate, freqs_by_col) ==
    SumEnumerate(candidate, freqs_by_col, 1)

(* score_p6_7_candidate, lines 59-62 *)

score_p6_7_Negated(candidate, freqs_by_col, dcounts) ==
    LET p6 == candidate[1]
        p7 == candidate[2]
        distance_score == Get(dcounts, p6 - p7)
    IN  Get(freqs_by_col[1], p6) + Get(freqs_by_col[2], p7) + distance_score

score_p6_7_candidate(candidate, freqs_by_col, dcounts) ==
    LET p6 == candidate[1]
        p7 == candidate[2]
        distance_score == Get(dcounts, p7 - p6)
    IN  Get(freqs_by_col[1], p6) + Get(freqs_by_col[2], p7) + distance_score

----------------------------------------------------------------------------
(* numpy.argmax / numpy.argmin on a non-empty list: the index of the        *)
(* extreme element, an earlier index being replaced by a later one only    *)
(* on a strict improvement; on an empty list both raise ValueError.        *)
(* The scan is folded over halves of the 0-based index range lo..hi.       *)

RECURSIVE ArgMaxScan(_, _, _)
\* 0-based index of the first maximum of a[lo..hi]
ArgMaxScan(a, lo, hi) ==
    IF lo >= hi THEN lo
    ELSE LET mid == (lo + hi) \div 2
             left == ArgMaxScan(a, lo, mid)
             right == ArgMaxScan(a, mid + 1, hi)
         IN  IF a[right + 1] > a[left + 1] THEN right ELSE left

RECURSIVE ArgMinScan(_, _, _)
\* 0-based index of the first minimum of a[lo..hi]
ArgMinScan(a, lo, hi) ==
    IF lo >= hi THEN lo
    ELSE LET mid == (lo + hi) \div 2
             left == ArgMinScan(a, lo, mid)
             right == ArgMinScan(a, mid + 1, hi)
         IN  IF a[right + 1] < a[left + 1] THEN right ELSE left

RECURSIVE ArgMaxScanLast(_, _, _)
ArgMaxScanLast(a, lo, hi) ==
    IF lo >= hi THEN lo
    ELSE LET mid == (lo + hi) \div 2
             left == ArgMaxScanLast(a, lo, mid)
             right == ArgMaxScanLast(a, mid + 1, hi)
         IN  IF a[right + 1] >= a[left + 1] THEN right ELSE left

RECURSIVE ArgMinScanLast(_, _, _)
ArgMinScanLast(a, lo, hi) ==
    IF lo >= hi THEN lo
    ELSE LET mid == (lo + hi) \div 2
             left == ArgMinScanLast(a, lo, mid)
             right == ArgMinScanLast(a, mid + 1, hi)
         IN  IF a[right + 1] <= a[left + 1] THEN right ELSE left

argmax_Last(a) == ArgMaxScanLast(a, 0, Len(a) - 1)

argmin_Last(a) == ArgMinScanLast(a, 0, Len(a) - 1)

argmax(a) == ArgMaxScan(a, 0, Len(a) - 1)

argmin(a) == ArgMinScan(a, 0, Len(a) - 1)

\* "attempt to get argmax of an empty sequence"
RaisesValueError(a) == Len(a) = 0

----------------------------------------------------------------------------
(* the report, lines 102-145 *)

Record(p1_5, p6_7) ==
    [positions |-> [P1 |-> p1_5[1], P2 |-> p1_5[2], P3 |-> p1_5[3],
                    P4 |-> p1_5[4], P5 |-> p1_5[5],
                    P6 |-> p6_7[1], P7 |-> p6_7[2]],
     distances |-> [P1_P2 |-> DIST_P1_P2, P2_P3 |-> DIST_P2_P3,
                    P3_P4 |-> DIST_P3_P4, P4_P5 |-> DIST_P4_P5,
                    P6_P7 |-> p6_7[2] - p6_7[1]]]

BuildResult_Swapped(ml15, ml67, ll15, ll67) ==
    [target_date |-> TARGET_DATE,
     day_of_week |-> "Tuesday",
     most_likely |-> [positions |-> Record(ml15, ml67).positions,
                      distances |-> Record(ml15, ll67).distances],
     least_likely |-> Record(ll15, ll67)]

BuildResult(ml15, ml67, ll15, ll67) ==
    [target_date |-> TARGET_DATE,
     day_of_week |-> "Tuesday",
     most_likely |-> Record(ml15, ml67),
     least_likely |-> Record(ll15, ll67)]

\* llm_agent.llm_refine: some report of the same shape
llm_refine(r) ==
    { BuildResult(a, b, c, d) : a \in {r.most_likely.positions.P1} \X {r.most_likely.positions.P2}
                                         \X {r.most_likely.positions.P3} \X {r.most_likely.positions.P4}
                                         \X (1..50),
                                b \in (1..12) \X (1..12),
                                c \in {<<r.least_likely.positions.P1, r.least_likely.positions.P2,
                                         r.least_likely.positions.P3, r.least_likely.positions.P4,
                                         r.least_likely.positions.P5>>},
                                d \in (1..12) \X (1..12) }

----------------------------------------------------------------------------
(* main(), lines 65-150 *)

TypeStart ==
    /\ pc = "features"
    /\ df \in Datasets
    /\ p1_5_candidates = <<>> /\ p1_5_freqs = <<>> /\ p1_5_scores = <<>>
    /\ best_p1_5_idx = -1 /\ worst_p1_5_idx = -1
    /\ most_likely_p1_5 = <<>> /\ least_likely_p1_5 = <<>>
    /\ p6_7_freqs = <<>> /\ distance_counts = <<>>
    /\ p6_7_candidates = <<>> /\ p6_7_scores = <<>>
    /\ best_p6_7_idx = -1 /\ worst_p6_7_idx = -1
    /\ most_likely_p6_7 = <<>> /\ least_likely_p6_7 = <<>>
    /\ result = <<>>
    /\ stdout = <<>>
    /\ error = ""

\* the program as written: the constants of lines 29-32
Init == config = DefaultConfig /\ TypeStart

\* the program with its gap constants edited
InitCfg == config \in Configs /\ TypeStart

\* line 67
DistanceFeatures ==
    /\ pc = "features"
    /\ df' = distance_features(df)
    /\ pc' = "generate"
    /\ UNCHANGED <<config, p1_5_candidates, p1_5_freqs, p1_5_scores,
                   best_p1_5_idx, worst_p1_5_idx, most_likely_p1_5, least_likely_p1_5,
                   p6_7_freqs, distance_counts, p6_7_candidates, p6_7_scores,
                   best_p6_7_idx, worst_p6_7_idx, most_likely_p6_7, least_likely_p6_7,
                   result, stdout, error>>

\* line 69
GenerateP15 ==
    /\ pc = "generate"
    /\ p1_5_candidates' = generate_p1_5_candidates
    /\ pc' = "count15"
    /\ UNCHANGED <<config, df, p1_5_freqs, p1_5_scores,
                   best_p1_5_idx, worst_p1_5_idx, most_likely_p1_5, least_likely_p1_5,
                   p6_7_freqs, distance_counts, p6_7_candidates, p6_7_scores,
                   best_p6_7_idx, worst_p6_7_idx, most_likely_p6_7, least_likely_p6_7,
                   result, stdout, error>>

\* lines 71-76
CountP15 ==
    /\ pc = "count15"
    /\ p1_5_freqs' = << Counter(Column(df, "P1")), Counter(Column(df, "P2")),
                        Counter(Column(df, "P3")), Counter(Column(df, "P4")),
                        Counter(Column(df, "P5")) >>
    /\ pc' = "score15"
    /\ UNCHANGED <<config, df, p1_5_candidates, p1_5_scores,
                   best_p1_5_idx, worst_p1_5_idx, most_likely_p1_5, least_likely_p1_5,
                   p6_7_freqs, distance_counts, p6_7_candidates, p6_7_scores,
                   best_p6_7_idx, worst_p6_7_idx, most_likely_p6_7, least_likely_p6_7,
                   result, stdout, error>>

\* line 78
ScoreP15 ==
    /\ pc = "score15"
    /\ p1_5_scores' = [k \in 1..Len(p1_5_candidates) |->
                          score_p1_5_candidate(p1_5_candidates[k], p1_5_freqs)]
    /\ pc' = "select15"
    /\ UNCHANGED <<config, df, p1_5_candidates, p1_5_freqs,
                   best_p1_5_idx, worst_p1_5_idx, most_likely_p1_5, least_likely_p1_5,
                   p6_7_freqs, distance_counts, p6_7_candidates, p6_7_scores,
                   best_p6_7_idx, worst_p6_7_idx, most_likely_p6_7, least_likely_p6_7,
                   result, stdout, error>>

SelectP15_Swallow ==
    /\ pc = "select15"
    /\ IF RaisesValueError(p1_5_scores)
       THEN /\ pc' = "count67"
            /\ most_likely_p1_5' = <<0, 0, 0, 0, 0>>
            /\ least_likely_p1_5' = <<0, 0, 0, 0, 0>>
            /\ UNCHANGED <<best_p1_5_idx, worst_p1_5_idx>>
       ELSE /\ best_p1_5_idx' = argmax(p1_5_scores)
            /\ worst_p1_5_idx' = argmin(p1_5_scores)
            /\ most_likely_p1_5' = p1_5_candidates[best_p1_5_idx' + 1]
            /\ least_likely_p1_5' = p1_5_candidates[worst_p1_5_idx' + 1]
            /\ pc' = "count67"
    /\ UNCHANGED <<config, df, p1_5_candidates, p1_5_freqs, p1_5_scores,
                   p6_7_freqs, distance_counts, p6_7_candidates, p6_7_scores,
                   best_p6_7_idx, worst_p6_7_idx, most_likely_p6_7, least_likely_p6_7,
                   result, stdout, error>>

\* lines 79-83; np.argmax raises on an empty list and nothing catches it
SelectP15 ==
    /\ pc = "select15"
    /\ IF RaisesValueError(p1_5_scores)
       THEN /\ pc' = "failed"
            /\ error' = "ValueError"
            /\ UNCHANGED <<best_p1_5_idx, worst_p1_5_idx,
                           most_likely_p1_5, least_likely_p1_5>>
       ELSE /\ best_p1_5_idx' = argmax(p1_5_scores)
            /\ worst_p1_5_idx' = argmin(p1_5_scores)
            /\ most_likely_p1_5' = p1_5_candidates[best_p1_5_idx' + 1]
            /\ least_likely_p1_5' = p1_5_candidates[worst_p1_5_idx' + 1]
            /\ pc' = "count67"
            /\ UNCHANGED error
    /\ UNCHANGED <<config, df, p1_5_candidates, p1_5_freqs, p1_5_scores,
                   p6_7_freqs, distance_counts, p6_7_candidates, p6_7_scores,
                   best_p6_7_idx, worst_p6_7_idx, most_likely_p6_7, least_likely_p6_7,
                   result, stdout>>

\* lines 85-89
CountP67 ==
    /\ pc = "count67"
    /\ p6_7_freqs' = << Counter(Column(df, "P6")), Counter(Column(df, "P7")) >>
    /\ distance_counts' = Counter(Column(df, "D67"))
    /\ pc' = "generate67"
    /\ UNCHANGED <<config, df, p1_5_candidates, p1_5_freqs, p1_5_scores,
                   best_p1_5_idx, worst_p1_5_idx, most_likely_p1_5, least_likely_p1_5,
                   p6_7_candidates, p6_7_scores,
                   best_p6_7_idx, worst_p6_7_idx, most_likely_p6_7, least_likely_p6_7,
                   result, stdout, error>>

\* line 91
GenerateP67 ==
    /\ pc = "generate67"
    /\ p6_7_candidates' = generate_p6_7_candidates
    /\ pc' = "score67"
    /\ UNCHANGED <<config, df, p1_5_candidates, p1_5_freqs, p1_5_scores,
                   best_p1_5_idx, worst_p1_5_idx, most_likely_p1_5, least_likely_p1_5,
                   p6_7_freqs, distance_counts, p6_7_scores,
                   best_p6_7_idx, worst_p6_7_idx, most_likely_p6_7, least_likely_p6_7,
                   result, stdout, error>>

\* lines 92-94
ScoreP67 ==
    /\ pc = "score67"
    /\ p6_7_scores' = [k \in 1..Len(p6_7_candidates) |->
                          score_p6_7_candidate(p6_7_candidates[k], p6_7_freqs, distance_counts)]
    /\ pc' = "select67"
    /\ UNCHANGED <<config, df, p1_5_candidates, p1_5_freqs, p1_5_scores,
                   best_p1_5_idx, worst_p1_5_idx, most_likely_p1_5, least_likely_p1_5,
                   p6_7_freqs, distance_counts, p6_7_candidates,
                   best_p6_7_idx, worst_p6_7_idx, most_likely_p6_7, least_likely_p6_7,
                   result, stdout, error>>

\* lines 96-100
SelectP67 ==
    /\ pc = "select67"
    /\ IF RaisesValueError(p6_7_scores)
       THEN /\ pc' = "failed"
            /\ error' = "ValueError"
            /\ UNCHANGED <<best_p6_7_idx, worst_p6_7_idx,
                           most_likely_p6_7, least_likely_p6_7>>
       ELSE /\ best_p6_7_idx' = argmax(p6_7_scores)
            /\ worst_p6_7_idx' = argmin(p6_7_scores)
            /\ most_likely_p6_7' = p6_7_candidates[best_p6_7_idx' + 1]
            /\ least_likely_p6_7' = p6_7_candidates[worst_p6_7_idx' + 1]
            /\ pc' = "assemble"
            /\ UNCHANGED error
    /\ UNCHANGED <<config, df, p1_5_candidates, p1_5_freqs, p1_5_scores,
                   best_p1_5_idx, worst_p1_5_idx, most_likely_p1_5, least_likely_p1_5,
                   p6_7_freqs, distance_counts, p6_7_candidates, p6_7_scores,
                   result, stdout>>

\* lines 102-145
Assemble ==
    /\ pc = "assemble"
    /\ result' = BuildResult(most_likely_p1_5, most_likely_p6_7,
                             least_likely_p1_5, least_likely_p6_7)
    /\ pc' = "print"
    /\ UNCHANGED <<config, df, p1_5_candidates, p1_5_freqs, p1_5_scores,
                   best_p1_5_idx, worst_p1_5_idx, most_likely_p1_5, least_likely_p1_5,
                   p6_7_freqs, distance_counts, p6_7_candidates, p6_7_scores,
                   best_p6_7_idx, worst_p6_7_idx, most_likely_p6_7, least_likely_p6_7,
                   stdout, error>>

\* lines 147-150
RefineAndPrint ==
    /\ pc = "print"
    /\ result' \in (IF USE_LLM_REFINEMENT THEN llm_refine(result) ELSE {result})
    /\ stdout' = Append(stdout, result')
    /\ pc' = "done"
    /\ UNCHANGED <<config, df, p1_5_candidates, p1_5_freqs, p1_5_scores,
                   best_p1_5_idx, worst_p1_5_idx, most_likely_p1_5, least_likely_p1_5,
                   p6_7_freqs, distance_counts, p6_7_candidates, p6_7_scores,
                   best_p6_7_idx, worst_p6_7_idx, most_likely_p6_7, least_likely_p6_7,
                   error>>

Next ==
    \/ DistanceFeatures
    \/ GenerateP15
    \/ CountP15
    \/ ScoreP15
    \/ SelectP15
    \/ CountP67
    \/ GenerateP67
    \/ ScoreP67
    \/ SelectP67
    \/ Assemble
    \/ RefineAndPrint

Spec == Init /\ [][Next]_vars

SpecCfg == InitCfg /\ [][Next]_vars

----------------------------------------------------------------------------
(* positions of main() *)

AfterGenerateP15 == pc \notin {"features", "generate"}
AfterScoreP15 == pc \notin {"features", "generate", "count15", "score15"}
AfterSelectP15 == pc \notin {"features", "generate", "count15", "score15", "select15", "failed"}
AfterGenerateP67 == pc \in {"score67", "select67", "assemble", "print", "done"}
AfterScoreP67 == pc \in {"select67", "assemble", "print", "done"}
AfterSelectP67 == pc \in {"assemble", "print", "done"}
AfterAssemble == pc \in {"print", "done"}

----------------------------------------------------------------------------
(* Properties *)

\* the count of v in a frequency table, a missing key counting as zero
CountIn(table, v) == CASE v \in DOMAIN table -> table[v]
                       [] OTHER -> 0

\* C1: every generated 5-tuple has consecutive differences 5, 2, 11, 10 and
\* all five of its values within 1..50
C1_GapsAndRange ==
    AfterGenerateP15 =>
        \A k \in 1..Len(p1_5_candidates) :
            LET c == p1_5_candidates[k]
            IN  /\ Len(c) = 5
                /\ c[2] - c[1] = 5
                /\ c[3] - c[2] = 2
                /\ c[4] - c[3] = 11
                /\ c[5] - c[4] = 10
                /\ \A i \in 1..5 : c[i] >= 1 /\ c[i] <= 50

C1_Witness ==
    /\ pc = "count15"
    /\ \E k \in 1..Len(p1_5_candidates) : p1_5_candidates[k][5] = 50

\* C2 as stated: the 5-tuple generator produces exactly 29 candidates
C2_Original29 == AfterGenerateP15 => Len(p1_5_candidates) = 29

\* C2 amended: the 5-tuple generator produces exactly 22 candidates
C2_Exactly22 == AfterGenerateP15 => Len(p1_5_candidates) = 22

C2_Witness == pc = "score15" /\ Len(p1_5_candidates) > 0

\* C3: the generator emits one tuple for every v1 with v1 + 28 <= 50 (1..22),
\* none missing, none twice, in strictly ascending order of v1, the last
\* tuple ending at exactly 50
C3_CompleteAndOrdered ==
    AfterGenerateP15 =>
        LET n == Len(p1_5_candidates)
        IN  /\ \A v1 \in 1..50 :
                  (v1 + 28 <= 50) <=> (\E k \in 1..n : p1_5_candidates[k][1] = v1)
            /\ \A v1 \in 1..22 : \E k \in 1..n : p1_5_candidates[k][1] = v1
            /\ \A j, k \in 1..n : j # k => p1_5_candidates[j] # p1_5_candidates[k]
            /\ \A k \in 1..(n - 1) : p1_5_candidates[k][1] < p1_5_candidates[k + 1][1]
            /\ n > 0 /\ p1_5_candidates[n][5] = 50

C3_Witness ==
    /\ pc = "select15"
    /\ Len(p1_5_candidates) > 1
    /\ p1_5_candidates[1][1] = 1

\* C4: the 2-tuple generator produces exactly the pairs (a, b) with
\* 1 <= a < b <= 12, each once (66 of them), ascending by a and then by b
C4_Pairs ==
    AfterGenerateP67 =>
        LET n == Len(p6_7_candidates)
        IN  /\ { p6_7_candidates[k] : k \in 1..n }
                  = { <<a, b>> : a \in 1..12, b \in 1..12 } \ { ab \in (1..12) \X (1..12) : ab[1] >= ab[2] }
            /\ n = (12 * 11) \div 2
            /\ n = 66
            /\ \A k \in 1..(n - 1) :
                  LET x == p6_7_candidates[k]
                      y == p6_7_candidates[k + 1]
                  IN  \/ x[1] < y[1]
                      \/ x[1] = y[1] /\ x[2] < y[2]

C4_Witness == pc = "score67" /\ Len(p6_7_candidates) > 0

\* idx (0-based) is the first position of the maximum of scores
IsFirstMax(scores, idx) ==
    /\ idx \in 0..(Len(scores) - 1)
    /\ \A j \in 1..Len(scores) : scores[j] <= scores[idx + 1]
    /\ \A j \in 1..idx : scores[j] < scores[idx + 1]

\* idx (0-based) is the first position of the minimum of scores
IsFirstMin(scores, idx) ==
    /\ idx \in 0..(Len(scores) - 1)
    /\ \A j \in 1..Len(scores) : scores[j] >= scores[idx + 1]
    /\ \A j \in 1..idx : scores[j] > scores[idx + 1]

\* C5: the most-likely candidate has a score >= every other, the least-likely
\* a score <= every other, the first generated winning a tie, for the
\* 5-tuples and for the 2-tuples; scores [3, 7, 7, 2] select index 1
C5_FirstExtremum ==
    /\ AfterSelectP15 =>
          /\ IsFirstMax(p1_5_scores, best_p1_5_idx)
          /\ IsFirstMin(p1_5_scores, worst_p1_5_idx)
          /\ most_likely_p1_5 = p1_5_candidates[best_p1_5_idx + 1]
          /\ least_likely_p1_5 = p1_5_candidates[worst_p1_5_idx + 1]
    /\ AfterSelectP67 =>
          /\ IsFirstMax(p6_7_scores, best_p6_7_idx)
          /\ IsFirstMin(p6_7_scores, worst_p6_7_idx)
          /\ most_likely_p6_7 = p6_7_candidates[best_p6_7_idx + 1]
          /\ least_likely_p6_7 = p6_7_candidates[worst_p6_7_idx + 1]
    /\ argmax(<<3, 7, 7, 2>>) = 1

\* both selections made, each with a tie for a positive maximum
C5_Witness ==
    /\ AfterSelectP67
    /\ p1_5_scores[best_p1_5_idx + 1] > 0
    /\ \E j \in 1..Len(p1_5_scores) :
          j > best_p1_5_idx + 1 /\ p1_5_scores[j] = p1_5_scores[best_p1_5_idx + 1]
    /\ p6_7_scores[best_p6_7_idx + 1] > 0
    /\ \E j \in 1..Len(p6_7_scores) :
          j > best_p6_7_idx + 1 /\ p6_7_scores[j] = p6_7_scores[best_p6_7_idx + 1]

\* C6: the score of a 5-tuple is the sum over its five positions of the count
\* of its i-th value in the i-th table, an absent value counting 0, and it is
\* a non-negative integer
C6_ScoreP15 ==
    AfterScoreP15 =>
        /\ Len(p1_5_scores) = Len(p1_5_candidates)
        /\ \A k \in 1..Len(p1_5_candidates) :
              LET c == p1_5_candidates[k]
              IN  /\ p1_5_scores[k] = CountIn(p1_5_freqs[1], c[1]) + CountIn(p1_5_freqs[2], c[2])
                                        + CountIn(p1_5_freqs[3], c[3]) + CountIn(p1_5_freqs[4], c[4])
                                        + CountIn(p1_5_freqs[5], c[5])
                  /\ p1_5_scores[k] \in Nat

\* a scored candidate with a positive score and a value missing from its table
C6_Witness ==
    /\ pc = "select15"
    /\ \E k \in 1..Len(p1_5_candidates) :
          /\ p1_5_scores[k] > 0
          /\ p1_5_candidates[k][2] \in DOMAIN p1_5_freqs[2]
          /\ p1_5_candidates[k][1] \notin DOMAIN p1_5_freqs[1]

\* C7: the score of a pair (a, b) is count of a in the slot-6 table + count of
\* b in the slot-7 table + count of b - a in the D67 table, an absent key
\* counting 0, the three terms unweighted
C7_ScoreP67 ==
    AfterScoreP67 =>
        /\ Len(p6_7_scores) = Len(p6_7_candidates)
        /\ \A k \in 1..Len(p6_7_candidates) :
              LET a == p6_7_candidates[k][1]
                  b == p6_7_candidates[k][2]
              IN  p6_7_scores[k] = CountIn(p6_7_freqs[1], a) + CountIn(p6_7_freqs[2], b)
                                     + CountIn(distance_counts, b - a)

\* a scored pair whose score comes from the gap table alone
C7_Witness ==
    /\ pc = "select67"
    /\ \E k \in 1..Len(p6_7_candidates) :
          LET a == p6_7_candidates[k][1]
              b == p6_7_candidates[k][2]
          IN  /\ a \notin DOMAIN p6_7_freqs[1]
              /\ b \notin DOMAIN p6_7_freqs[2]
              /\ (b - a) \in DOMAIN distance_counts
              /\ p6_7_scores[k] > 0

\* the record of the report built from a selected 5-tuple and 2-tuple
RecordMatches(rec, p1_5, p6_7) ==
    /\ rec.distances.P1_P2 = 5
    /\ rec.distances.P2_P3 = 2
    /\ rec.distances.P3_P4 = 11
    /\ rec.distances.P4_P5 = 10
    /\ rec.distances.P6_P7 = rec.positions.P7 - rec.positions.P6
    /\ <<rec.positions.P1, rec.positions.P2, rec.positions.P3,
         rec.positions.P4, rec.positions.P5>> = p1_5
    /\ <<rec.positions.P6, rec.positions.P7>> = p6_7

\* C8: in both records of the report the four fixed distances are 5, 2, 11,
\* 10, P6_P7 is P7 - P6 of that record, and P1..P5 / P6..P7 are the selected
\* 5-tuple / 2-tuple in order
C8_Report ==
    AfterAssemble =>
        /\ RecordMatches(result.most_likely, most_likely_p1_5, most_likely_p6_7)
        /\ RecordMatches(result.least_likely, least_likely_p1_5, least_likely_p6_7)

\* a report whose two records differ in every selected candidate and gap
C8_Witness ==
    /\ pc = "done"
    /\ most_likely_p1_5 # least_likely_p1_5
    /\ most_likely_p6_7[2] - most_likely_p6_7[1] # least_likely_p6_7[2] - least_likely_p6_7[1]
    /\ stdout = <<result>>

C10_EmptyData ==
    Len(df) = 0 =>
        /\ pc # "failed" /\ error = ""
        /\ AfterScoreP15 =>
              /\ Len(p1_5_scores) = 22
              /\ \A k \in 1..Len(p1_5_scores) : p1_5_scores[k] = 0
        /\ AfterScoreP67 =>
              /\ Len(p6_7_scores) = 66
              /\ \A k \in 1..Len(p6_7_scores) : p6_7_scores[k] = 0
        /\ pc = "done" =>
              /\ stdout = <<result>>
              /\ result.most_likely = result.least_likely
              /\ result.most_likely.positions =
                    [P1 |-> 1, P2 |-> 6, P3 |-> 8, P4 |-> 19, P5 |-> 29, P6 |-> 1, P7 |-> 2]

C10_Witness ==
    /\ Len(df) = 0
    /\ pc = "done"
    /\ Len(stdout) = 1

====
